---------------------------- MODULE Spec2Model ----------------------------
(***************************************************************************)
(* A model of the T5 attention core of libai, and of the DETR matcher:     *)
(*   projects/T5/models/attention.py          MultiheadAttention           *)
(*   projects/T5/models/transformer_layer.py  TransformerLayer             *)
(*   projects/DETR/modeling/matcher.py        HungarianMatcher             *)
(*                                                                         *)
(* Conventions.                                                            *)
(*  - Python's None is the empty tuple << >>; a present optional value is  *)
(*    the value itself (a non-empty tuple or a record).                    *)
(*  - A tensor of shape [bsz, seq, ...] is modelled for one batch element  *)
(*    and one head: a sequence over the sequence dimension.  A [tgt, src]  *)
(*    matrix is a sequence of rows.                                        *)
(***************************************************************************)
EXTENDS Integers, Sequences, FiniteSets, TLC

VARIABLES
    relative_position,  \* input of _relative_position_bucket (one matrix entry)
    other_position,     \* a second entry of the same matrix
    bidirectional,      \* argument bidirectional
    num_buckets,        \* argument num_buckets
    relative_buckets,   \* << >> before the call, <<bucket>> after it
    other_buckets,      \* the same for other_position
    attn_init,          \* << >> or <<p>>: the arguments of a call of
                        \* MultiheadAttention(...)
    attn,               \* << >> or <<m>>: what that call left: a module used
                        \* on its own, or the exception raised
    attn_call,          \* << >> or <<a>>: the arguments of its last forward
    attn_ret,           \* << >> or <<r>>: what that forward did
    decode,             \* << >> or <<P, n>>: the last forward ended a prefill of
                        \* P positions followed by n incremental steps
    layer_init,         \* << >> or <<p>>: the arguments of a call of
                        \* TransformerLayer(...)
    layer,              \* << >> or <<l>>: what that call left (a layer, or
                        \* the exception raised), or the self forward is
                        \* called on
    pc,                 \* where its forward stands: idle, self_attention,
                        \* cross_attention, mlp, done, error
    args,               \* << >> or <<a>>: the arguments of the running call
    fr,                 \* << >> or <<f>>: the locals of the running call
    ret,                \* << >> or <<r>>: what the call returned
    match_call,         \* << >> or <<a>>: the arguments of HungarianMatcher.forward
    match_ret           \* << >> or <<r>>: what that forward did

bucket_vars == <<relative_position, other_position, bidirectional, num_buckets,
                 relative_buckets, other_buckets>>

attn_vars == <<attn_init, attn, attn_call, attn_ret, decode>>

layer_vars == <<layer_init, layer, pc, args, fr, ret>>

matcher_vars == <<match_call, match_ret>>

vars == <<bucket_vars, attn_vars, layer_vars, matcher_vars>>

None == << >>

Min(a, b) == IF a <= b THEN a ELSE b

Abs(a) == IF a < 0 THEN -a ELSE a

(***************************************************************************)
(* Bounds of the model.                                                    *)
(***************************************************************************)
\* relative positions checked singly: -MaxRelPos .. MaxRelPos
MaxRelPos == 10000

\* relative positions checked in pairs: -MaxPast .. 0
MaxPast == 140

\* query positions of one forward: 1 .. MaxTgt
MaxTgt == 2

\* encoder positions: 1 .. MaxSrc
MaxSrc == 2

\* a key/value cache handed to forward holds fewer than MaxCacheLen positions
MaxCacheLen == 3

\* batch elements handed to the matcher: 1 .. MaxBatch
MaxBatch == 2

\* predictions per batch element: 1 .. MaxQueries
MaxQueries == 2

\* target boxes of one batch element: 0 .. MaxBoxes
MaxBoxes == 2

(***************************************************************************)
(* _relative_position_bucket                                               *)
(***************************************************************************)
\* default of the parameter max_distance; compute_bias never overrides it
max_distance == 128

\* relative_attention_num_buckets of the T5 configuration
ConfigNumBuckets == 32

\* the parts of the state of a program that does not use them
NoBucket ==
    /\ relative_position = 0 /\ other_position = 0
    /\ bidirectional = FALSE /\ num_buckets = ConfigNumBuckets
    /\ relative_buckets = None /\ other_buckets = None

NoAttn ==
    /\ attn_init = None /\ attn = None
    /\ attn_call = None /\ attn_ret = None /\ decode = None

NoLayer ==
    /\ layer_init = None /\ layer = None
    /\ pc = "idle" /\ args = None /\ fr = None /\ ret = None

NoMatcher == match_call = None /\ match_ret = None

\* floor(log(p / max_exact) / log(max_distance / max_exact) * span) >= j
\* holds exactly when p >= the j-th entry below: the least integer p with
\*     (p / max_exact)^span >= (max_distance / max_exact)^j
\* for max_distance = 128 and span = max_exact (num_buckets - max_exact
\* with max_exact = num_buckets \div 2).  The float32 evaluation of the
\* source agrees with these thresholds on every integer up to 20000.
LogThresholds(max_exact) ==
    CASE max_exact = 16 -> <<19, 21, 24, 27, 31, 35, 40, 46, 52, 59, 67, 77,
                             87, 99, 113, 128>>
      [] max_exact = 8  -> <<12, 16, 23, 32, 46, 64, 91, 128>>
      [] max_exact = 4  -> <<10, 23, 54, 128>>

\* (flow.log(relative_position.float() / max_exact)
\*    / math.log(max_distance / max_exact) * (num_buckets - max_exact)).to(flow.long)
\* saturated at num_buckets - max_exact (every larger value is cut to
\* num_buckets - 1 by the flow.min that follows).
LogSteps(pos, max_exact) ==
    LET thr == LogThresholds(max_exact)
    IN  Cardinality({j \in 1..Len(thr) : pos >= thr[j]})

\* the clamp to num_buckets - 1 left out
RelativePositionIfLarge_NoClamp(pos, nb, max_exact) ==
    max_exact + LogSteps(pos, max_exact)

\* the offset max_exact of the logarithmic regime left out
RelativePositionIfLarge_NoOffset(pos, nb, max_exact) ==
    Min(LogSteps(pos, max_exact), nb - 1)

\* flow.min(relative_postion_if_large, full(num_buckets - 1))
RelativePositionIfLarge(pos, nb, max_exact) ==
    Min(max_exact + LogSteps(pos, max_exact), nb - 1)

\* the magnitude taken in unidirectional mode as well
Magnitude_AbsAlways(rp, bidir) == Abs(rp)

\* the magnitude: flow.abs(rp) if bidirectional, -min(rp, 0) otherwise
Magnitude(rp, bidir) ==
    IF bidir THEN Abs(rp) ELSE -1 * Min(rp, 0)

\* the bucket count never halved
EffectiveBuckets_NotHalved(bidir, nb) == nb

\* the bucket count after "num_buckets //= 2" in the bidirectional branch
EffectiveBuckets(bidir, nb) ==
    IF bidir THEN nb \div 2 ELSE nb

\* relative_buckets += (relative_position > 0).to(flow.long) * num_buckets
BidirectionalOffset(rp, bidir, nb) ==
    IF bidir /\ rp > 0 THEN EffectiveBuckets(bidir, nb) ELSE 0

_relative_position_bucket(rp, bidir, nb) ==
    LET eff       == EffectiveBuckets(bidir, nb)
        pos       == Magnitude(rp, bidir)
        max_exact == eff \div 2
        is_small  == pos < max_exact
    IN  BidirectionalOffset(rp, bidir, nb)
          + (IF is_small THEN pos
                         ELSE RelativePositionIfLarge(pos, eff, max_exact))

(***************************************************************************)
(* Tensors.  A tensor carries its placement (a pipeline stage), its sbp    *)
(* signature, its data (one entry per sequence position) and the chain of  *)
(* layer operations that produced it from an input.                        *)
(***************************************************************************)
Tensor(placement, sbp, data, hist) ==
    [placement |-> placement, sbp |-> sbp, data |-> data, hist |-> hist]

\* t.to_global(placement=p): the same tensor, owned by placement p
ToGlobalPlacement(t, p) == [t EXCEPT !.placement = p]

\* t.to_global(sbp=s): the same tensor, laid out as s
ToGlobalSbp(t, s) == [t EXCEPT !.sbp = s]

\* x.to_global(placement=p) for an optional x that is not None
OptToGlobalPlacement(x, p) ==
    IF x # None THEN <<ToGlobalPlacement(x[1], p)>> ELSE None

Rows(M) == Len(M)

Cols(M) == Len(M[1])

\* flow.zeros((1, num_heads, r, c))
Zeros(r, c) == [i \in 1..r |-> [j \in 1..c |-> 0]]

\* M[:, :, -n:, :]
LastRows(M, n) ==
    IF n >= Len(M) THEN M ELSE SubSeq(M, Len(M) - n + 1, Len(M))

\* index i of a dimension of size n read through broadcasting
BIdx(i, n) == IF n = 1 THEN 1 ELSE i

\* whether an [r, c] operand can be added in place into an [R, C] tensor
InPlaceOK(R, C, r, c) == r \in {R, 1} /\ c \in {C, 1}

\* the size two operands of sizes n and m broadcast to along one dimension
\* when neither is written in place; 0 when they do not broadcast
BroadcastDim(n, m) == IF n = m \/ m = 1 THEN n ELSE IF n = 1 THEN m ELSE 0

(***************************************************************************)
(* MultiheadAttention.__init__                                             *)
(***************************************************************************)
\* the learned table relative_attention_bias: one weight per bucket (one
\* head shown); the weights are pairwise different and none is zero
relative_attention_bias(bucket) == bucket + 1

\* the assertion left out: a module is built whatever the sizes are
MultiheadAttentionInit_NoAssert(p) ==
    [status |-> "ok",
     hidden_size |-> p.hidden_size,
     relative_attention_num_buckets |-> p.relative_attention_num_buckets,
     has_relative_attention_bias |-> p.has_relative_attention_bias,
     is_decoder |-> p.is_decoder,
     num_heads |-> p.num_attention_heads,
     head_size |-> p.hidden_size \div p.num_attention_heads,
     coeff |-> IF p.apply_query_key_layer_scaling
               THEN <<p.layer_idx + 1>> ELSE None,
     is_cross_attention |-> p.is_cross_attention,
     scale_mask_softmax_fusion |-> p.scale_mask_softmax_fusion,
     layer_idx |-> p.layer_idx]

MultiheadAttentionInit(p) ==
    IF p.hidden_size % p.num_attention_heads # 0
    THEN [status |-> "AssertionError"]
    ELSE [status |-> "ok",
          hidden_size |-> p.hidden_size,
          relative_attention_num_buckets |-> p.relative_attention_num_buckets,
          has_relative_attention_bias |-> p.has_relative_attention_bias,
          is_decoder |-> p.is_decoder,
          num_heads |-> p.num_attention_heads,
          head_size |-> p.hidden_size \div p.num_attention_heads,
          coeff |-> IF p.apply_query_key_layer_scaling
                    THEN <<p.layer_idx + 1>> ELSE None,
          is_cross_attention |-> p.is_cross_attention,
          scale_mask_softmax_fusion |-> p.scale_mask_softmax_fusion,
          layer_idx |-> p.layer_idx]

\* lines 72-76: 1 / norm_factor^2, for norm_factor = 1 / sqrt(head_size),
\* divided by coeff when apply_query_key_layer_scaling
NormFactorInvSq(self) ==
    LET c == IF self.coeff # None THEN self.coeff[1] ELSE 1
    IN  self.head_size * c * c

(***************************************************************************)
(* MultiheadAttention.compute_bias                                         *)
(***************************************************************************)
compute_bias(self, query_length, key_length) ==
    [i \in 1..query_length |->
        [j \in 1..key_length |->
            relative_attention_bias(
                _relative_position_bucket(j - i, ~self.is_decoder,
                                          self.relative_attention_num_buckets))]]

(***************************************************************************)
(* MultiheadAttention.forward                                              *)
(***************************************************************************)
\* the penalty folded into a freshly resolved position_bias
BiasPenalty == 1000

\* the fill value of masked scores
MaskFill == 10000

\* one chunk of a linear projection of tensor t: entry i is the projection
\* of position i by the named weight
Project(t, weight, chunk) ==
    [i \in 1..Len(t.data) |->
        [weight |-> weight, chunk |-> chunk, tok |-> t.data[i], hist |-> t.hist]]

\* what forward leaves behind.  status "ok": it returned
\*   (output, position_bias)                     when not packed
\*   ((output, past_key_value), position_bias)   when packed
\* any other status names the exception it raised.  key, value, bias_added
\* and mask are the locals of the same name at the point reached
\* (bias_added: the position_bias added to attention_scores).
AttnResult(status, output, pkv, position_bias, packed, key, value, bias_added, mask) ==
    [status |-> status, output |-> output, past_key_value |-> pkv,
     position_bias |-> position_bias, packed |-> packed,
     key |-> key, value |-> value, bias_added |-> bias_added, mask |-> mask]

\* the input of softmax at [i, j] as  mul * (raw query-key product) + add
Logit(self, b, m) ==
    IF m = None THEN [mul |-> 1, add |-> b]
    ELSE IF self.scale_mask_softmax_fusion
         THEN (IF m[1] = 1 THEN [mul |-> 1, add |-> b]
                           ELSE [mul |-> 0, add |-> -MaskFill])
         ELSE LET c == IF self.coeff # None THEN self.coeff[1] ELSE 1
              IN  [mul |-> c * m[1],
                   add |-> b * c * m[1] - MaskFill * (1 - m[1])]

\* lines 164-174: real_seq_length
RealSeqLength(a) ==
    LET tgt_len == Len(a.hidden_states.data)
    IN  IF a.past_key_value # None
        THEN tgt_len + (IF a.query_length = None
                        THEN Len(a.past_key_value[1])
                        ELSE a.query_length[1])
        ELSE tgt_len

\* the cached pair ignored whenever encoder_states is given
NoKeyValueSource_IgnoresPast(self, past, encoder_states) ==
    self.is_cross_attention /\ encoder_states = None

\* lines 182-192: cross-attention has nothing to take key and value from
NoKeyValueSource(self, past, encoder_states) ==
    self.is_cross_attention /\ past = None /\ encoder_states = None

\* cross-attention projecting encoder_states again whenever they are given
KeyValue_CrossRecomputes(self, hidden_states, encoder_states, past) ==
    IF self.is_cross_attention
    THEN IF encoder_states # None
         THEN <<Project(encoder_states[1], "key_value", "key"),
                Project(encoder_states[1], "key_value", "value")>>
         ELSE <<past[1], past[2]>>
    ELSE LET key   == Project(hidden_states, "query_key_value", "key")
             value == Project(hidden_states, "query_key_value", "value")
         IN  IF past # None
             THEN <<past[1] \o key, past[2] \o value>>
             ELSE <<key, value>>

\* lines 176-207: the key and value tensors, as <<key, value>>
KeyValue(self, hidden_states, encoder_states, past) ==
    IF self.is_cross_attention
    THEN IF past # None
         THEN <<past[1], past[2]>>
         ELSE <<Project(encoder_states[1], "key_value", "key"),
                Project(encoder_states[1], "key_value", "value")>>
    ELSE LET key   == Project(hidden_states, "query_key_value", "key")
             value == Project(hidden_states, "query_key_value", "value")
         IN  IF past # None
             THEN <<past[1] \o key, past[2] \o value>>
             ELSE <<key, value>>

\* the cache handed in is returned as it came
PastKeyValueAfter_KeepsPast(use_cache, key, value, past) ==
    IF use_cache /\ past = None THEN <<key, value>> ELSE past

\* lines 210-211: past_key_value once key and value are known
PastKeyValueAfter(use_cache, key, value, past) ==
    IF use_cache THEN <<key, value>> ELSE past

\* lines 179-181, 198-203: the query tensor
Query(self, hidden_states) ==
    IF self.is_cross_attention
    THEN Project(hidden_states, "query", "query")
    ELSE Project(hidden_states, "query_key_value", "query")

\* with a cache the bias computed anew for the tgt_len new queries alone
ResolvedBias_Recomputed(self, real_seq_length, key_length, tgt_len, cached) ==
    LET q == IF cached THEN tgt_len ELSE real_seq_length
    IN  IF ~self.has_relative_attention_bias
        THEN Zeros(q, key_length)
        ELSE compute_bias(self, q, key_length)

\* lines 217-232: the position_bias resolved by forward itself, before the
\* mask is folded in; cached is "past_key_value is not None" at line 231
ResolvedBias(self, real_seq_length, key_length, tgt_len, cached) ==
    LET fresh == IF ~self.has_relative_attention_bias
                 THEN Zeros(real_seq_length, key_length)
                 ELSE compute_bias(self, real_seq_length, key_length)
    IN  IF cached THEN LastRows(fresh, tgt_len) ELSE fresh

\* line 238: position_bias += (1 - attention_mask) * -1000
FoldMask(bias, mask) ==
    [i \in 1..Rows(bias) |->
        [j \in 1..Cols(bias) |->
            bias[i][j]
              + (1 - mask[BIdx(i, Rows(mask))][BIdx(j, Cols(mask))]) * (-BiasPenalty)]]

\* a supplied bias restricted to its trailing rows when a cache is in play
AddedBias_Sliced(position_bias, resolved, attention_mask, tgt_len, cached) ==
    IF position_bias = None
    THEN FoldMask(resolved, attention_mask[1].data)
    ELSE IF cached THEN LastRows(position_bias[1], tgt_len) ELSE position_bias[1]

\* lines 217-241: the bias added to the scores: the bias resolved here (cut
\* to its trailing tgt_len rows when cached) with the mask folded in, or
\* the supplied bias as it is
AddedBias(position_bias, resolved, attention_mask, tgt_len, cached) ==
    IF position_bias = None
    THEN FoldMask(resolved, attention_mask[1].data)
    ELSE position_bias[1]

\* lines 241-258: the inputs of softmax, one row per query position.  The
\* scores are [tgt_len, src_len] and the bias is added into them in place;
\* the softmax input is width wide (flow.mul at line 252 broadcasts the
\* scores up to the mask where src_len is 1).
SoftmaxInput(self, tgt_len, src_len, width, bias, mask) ==
    [i \in 1..tgt_len |->
        [j \in 1..width |->
            Logit(self,
                  bias[BIdx(i, Rows(bias))][BIdx(BIdx(j, src_len), Cols(bias))],
                  IF mask = None THEN None
                  ELSE <<mask[1].data[BIdx(i, Rows(mask[1].data))]
                                     [BIdx(j, Cols(mask[1].data))]>>)]]

MHAForward(self, a) ==
    LET hidden_states  == a.hidden_states
        encoder_states == OptToGlobalPlacement(a.encoder_states, hidden_states.placement)
        attention_mask == OptToGlobalPlacement(a.attention_mask, hidden_states.placement)
        past           == a.past_key_value
        tgt_len        == Len(hidden_states.data)
        real_seq_length == RealSeqLength(a)
        key_length     == IF encoder_states = None THEN real_seq_length
                          ELSE Len(encoder_states[1].data)
        Raise(e) == AttnResult(e, None, None, None, FALSE, None, None, None,
                               attention_mask)
    IN
    IF past # None /\ Len(past) # 2 THEN Raise("AssertionError")
    ELSE IF NoKeyValueSource(self, past, encoder_states)
    THEN Raise("ValueError")
    ELSE
    LET kv      == KeyValue(self, hidden_states, encoder_states, past)
        key     == kv[1]
        value   == kv[2]
        src_len == Len(key)
        pkv     == PastKeyValueAfter(a.use_cache, key, value, past)
        Fail(e) == AttnResult(e, None, None, None, FALSE, key, value, None,
                              attention_mask)
    IN
    IF a.position_bias = None /\ attention_mask = None
    THEN Fail("AttributeError")           \* line 236: attention_mask.sbp
    ELSE
    LET resolved == ResolvedBias(self, real_seq_length, key_length, tgt_len, pkv # None)
        fold_ok  == InPlaceOK(Rows(resolved), Cols(resolved),
                              Rows(attention_mask[1].data), Cols(attention_mask[1].data))
    IN
    IF a.position_bias = None /\ ~fold_ok
    \* line 238: shapes do not broadcast; line 237 has laid the mask out as
    \* position_bias and line 239 is not reached
    THEN AttnResult("RuntimeError", None, None, None, FALSE, key, value, None,
                    <<ToGlobalSbp(attention_mask[1], "BB")>>)
    ELSE
    LET position_bias == AddedBias(a.position_bias, resolved, attention_mask,
                                   tgt_len, pkv # None)
        \* lines 236-239: the mask laid out as position_bias, then as before
        mask_after == IF a.position_bias = None
                      THEN <<ToGlobalSbp(ToGlobalSbp(attention_mask[1], "BB"),
                                         attention_mask[1].sbp)>>
                      ELSE attention_mask
        add_ok  == InPlaceOK(tgt_len, src_len, Rows(position_bias), Cols(position_bias))
        \* the shape of the softmax input: that of the scores, or on the
        \* non-fused path (lines 252-253, flow.mul and the subtraction are not
        \* in place) what scores and mask broadcast to
        wide    == attention_mask # None /\ ~self.scale_mask_softmax_fusion
        w_rows  == IF wide THEN BroadcastDim(tgt_len, Rows(attention_mask[1].data))
                   ELSE tgt_len
        w_cols  == IF wide THEN BroadcastDim(src_len, Cols(attention_mask[1].data))
                   ELSE src_len
        mask_ok == \/ attention_mask = None
                   \/ IF self.scale_mask_softmax_fusion
                      THEN InPlaceOK(tgt_len, src_len, Rows(attention_mask[1].data),
                                     Cols(attention_mask[1].data))
                      ELSE w_rows # 0 /\ w_cols # 0
    IN
    IF ~add_ok
    \* line 241: shapes do not broadcast, nothing is added
    THEN AttnResult("RuntimeError", None, None, None, FALSE, key, value, None,
                    mask_after)
    ELSE IF ~mask_ok
    \* lines 246, 252: the mask does not broadcast with the scores; line 241
    \* has added position_bias
    THEN AttnResult("RuntimeError", None, None, None, FALSE, key, value,
                    <<position_bias>>, mask_after)
    ELSE IF Len(value) # w_cols
    \* line 264: the weights, w_cols wide, do not multiply a value tensor of
    \* another length (key and value are concatenated apart, lines 204-207)
    THEN AttnResult("RuntimeError", None, None, None, FALSE, key, value,
                    <<position_bias>>, mask_after)
    ELSE IF w_rows # tgt_len
    \* line 271: a context of more rows than tgt_len is not viewed as
    \* [bsz, tgt_len, hidden_size]
    THEN AttnResult("RuntimeError", None, None, None, FALSE, key, value,
                    <<position_bias>>, mask_after)
    ELSE
    LET output == Tensor(hidden_states.placement, hidden_states.sbp,
                         [query  |-> Query(self, hidden_states),
                          logits |-> SoftmaxInput(self, tgt_len, src_len, w_cols,
                                                  position_bias, attention_mask),
                          value  |-> value],
                         hidden_states.hist)
    IN  AttnResult("ok", <<output>>,
                   IF a.use_cache THEN pkv ELSE None,
                   <<position_bias>>, a.use_cache, key, value,
                   <<position_bias>>, mask_after)

(***************************************************************************)
(* Inputs of a MultiheadAttention used on its own.                         *)
(***************************************************************************)
\* (hidden_size, num_attention_heads)
HeadConfigs == {<<8, 2>>, <<6, 4>>}

AttnParams ==
    [hidden_size : {8, 6}, num_attention_heads : {2, 4},
     relative_attention_num_buckets : {ConfigNumBuckets},
     is_cross_attention : BOOLEAN,
     scale_mask_softmax_fusion : BOOLEAN,
     apply_query_key_layer_scaling : BOOLEAN,
     layer_idx : {1},
     has_relative_attention_bias : BOOLEAN,
     is_decoder : BOOLEAN]

\* hidden_states: tokens 1 .. n on placement 0
HiddenInputs ==
    {Tensor(0, "S0B", [i \in 1..n |-> i], << >>) : n \in 1..MaxTgt}

\* encoder_states: None, or tokens base+1 .. base+n on placement 1
EncoderInputs ==
    {None, <<Tensor(1, "S0B", [i \in 1..MaxSrc |-> 10 + i], << >>)>>,
           <<Tensor(1, "S0B", [i \in 1..1 |-> 20 + i], << >>)>>}

PastEntry(chunk, tok) ==
    [weight |-> "past", chunk |-> chunk, tok |-> tok, hist |-> << >>]

\* a (key, value) pair of len cached positions
SamplePast(len) ==
    <<[i \in 1..len |-> PastEntry("key", 50 + i)],
      [i \in 1..len |-> PastEntry("value", 50 + i)]>>

\* past_key_value of a first call: None, a pair, the 4-tuple of a decoder
\* layer handed over unsplit, or a pair whose value is longer than its key
PastInputs ==
    {None}
      \cup {SamplePast(len) : len \in 1..(MaxCacheLen - 1)}
      \cup {SamplePast(1) \o SamplePast(1)}
      \cup {<<SamplePast(1)[1], SamplePast(2)[2]>>}

\* the sequence length of the key tensor of the call
KeyLen(self, hs, enc, past) ==
    IF past # None /\ Len(past) # 2 THEN 1
    ELSE IF self.is_cross_attention
    THEN (IF past # None THEN Len(past[1])
          ELSE IF enc # None THEN Len(enc[1].data) ELSE 1)
    ELSE Len(hs.data) + (IF past # None THEN Len(past[1]) ELSE 0)

MaskKinds == {"none", "ones", "pad", "zeros"}

\* attention_mask of shape [tgt, src]: None, all ones, the last key masked,
\* or every key masked
MaskOf(kind, tgt, src) ==
    IF kind = "none" THEN None
    ELSE <<Tensor(1, "S0B",
                  [i \in 1..tgt |->
                      [j \in 1..src |->
                          IF kind = "zeros" \/ (kind = "pad" /\ j = src)
                          THEN 0 ELSE 1]],
                  << >>)>>

BiasKinds == {"none", "match", "longer"}

\* position_bias: None, a [tgt, src] bias, or a bias with one row more
BiasOf(kind, tgt, src) ==
    IF kind = "none" THEN None
    ELSE <<[i \in 1..(IF kind = "longer" THEN tgt + 1 ELSE tgt) |->
               [j \in 1..src |-> 10 * i + j]]>>

\* query_length: None, or (cross-attention only, as a decoder layer does)
\* the length of the self-attention cache
QueryLengths(self) ==
    IF self.is_cross_attention THEN {None, <<MaxTgt>>} ELSE {None}

InitAttn ==
    /\ NoBucket /\ NoLayer /\ NoMatcher
    /\ \E p \in AttnParams :
          /\ <<p.hidden_size, p.num_attention_heads>> \in HeadConfigs
          /\ attn_init = <<p>>
          /\ attn = <<MultiheadAttentionInit(p)>>
    /\ attn_call = None /\ attn_ret = None /\ decode = None

\* the arguments of a call, the mask and the bias shaped for its tensors
AttnArgs(self, hs, enc, past, uc, mk, bk, ql) ==
    LET tgt == Len(hs.data)
        src == KeyLen(self, hs, enc, past)
    IN  [hidden_states |-> hs, encoder_states |-> enc,
         attention_mask |-> MaskOf(mk, tgt, src),
         past_key_value |-> past, use_cache |-> uc,
         position_bias |-> BiasOf(bk, tgt, src),
         query_length |-> ql]

\* forward is called with arguments a
AttnDo(a) ==
    LET r     == MHAForward(attn[1], a)
        tgt   == Len(a.hidden_states.data)
        chain == r.status = "ok" /\ a.use_cache /\ ~attn[1].is_cross_attention
    IN  /\ attn_call' = <<a>>
        /\ attn_ret' = <<r>>
        /\ decode' =
              IF chain /\ a.past_key_value = None THEN <<tgt, 0>>
              ELSE IF /\ chain /\ decode # None /\ tgt = 1
                      /\ attn_ret # None
                      /\ a.past_key_value = attn_ret[1].past_key_value
                   THEN <<decode[1], decode[2] + 1>>
                   ELSE None
        /\ UNCHANGED <<attn_init, attn>>
        /\ UNCHANGED <<bucket_vars, layer_vars, matcher_vars>>

\* a call of forward that is handed no cache of an earlier call
AttnForward ==
    /\ attn # None
    /\ attn[1].status = "ok"
    /\ attn_ret = None
    /\ \E hs \in HiddenInputs, enc \in EncoderInputs, past \in PastInputs,
          uc \in BOOLEAN, mk \in MaskKinds, bk \in BiasKinds,
          ql \in QueryLengths(attn[1]) :
          AttnDo(AttnArgs(attn[1], hs, enc, past, uc, mk, bk, ql))

\* a call of forward that is handed the cache the last call returned
AttnForwardCached ==
    /\ attn # None
    /\ attn_ret # None
    /\ attn_ret[1].status = "ok"
    /\ attn_ret[1].packed
    /\ Len(attn_ret[1].past_key_value[1]) < MaxCacheLen
    /\ \E hs \in HiddenInputs, enc \in EncoderInputs,
          mk \in MaskKinds, bk \in {"none", "match"} :
          AttnDo(AttnArgs(attn[1], hs, enc, attn_ret[1].past_key_value,
                          TRUE, mk, bk, None))

NextAttn == AttnForward \/ AttnForwardCached

SpecAttn == InitAttn /\ [][NextAttn]_vars

(***************************************************************************)
(* TransformerLayer.                                                       *)
(***************************************************************************)
\* layers that share one pipeline stage
LayersPerStage == 2

\* dist.get_layer_placement(layer_idx): the placement of the pipeline stage
\* that owns the layer
GetLayerPlacement(layer_idx) == layer_idx \div LayersPerStage

\* LayerNorm.forward: the normalized tensor, on the placement and with the
\* layout of its input
LayerNormForward(name, x) == [x EXCEPT !.hist = Append(@, name)]

\* hidden_states + y: the residual sum keeps positions, placement and layout
\* of hidden_states; what was added is recorded
Residual(hidden_states, what) == [hidden_states EXCEPT !.hist = Append(@, what)]

\* the parameters MultiheadAttention.__init__ declares
MultiheadAttentionParams ==
    {"hidden_size", "num_attention_heads", "relative_attention_num_buckets",
     "is_cross_attention", "attention_dropout_prob", "output_dropout_prob",
     "init_method", "output_layer_init_method", "bias_dropout_fusion",
     "scale_mask_softmax_fusion", "apply_query_key_layer_scaling",
     "layer_idx", "has_relative_attention_bias", "is_decoder"}

\* the keywords build_attention passes to MultiheadAttention(...), after the
\* positional hidden_size and num_attention_heads
BuildAttentionKeywords ==
    {"head_size", "relative_attention_num_buckets", "is_cross_attention",
     "attention_dropout_prob", "output_dropout_prob", "init_method",
     "output_layer_init_method", "layer_idx", "has_relative_attention_bias",
     "is_decoder"}

\* the module MultiheadAttention.__init__ builds from the arguments of
\* build_attention that it declares; scale_mask_softmax_fusion and
\* apply_query_key_layer_scaling are not passed and keep their default
AttentionOfLayer(self, is_cross_attention, has_relative_attention_bias, is_decoder) ==
    MultiheadAttentionInit(
        [hidden_size |-> self.hidden_size,
         num_attention_heads |-> self.num_attention_heads,
         relative_attention_num_buckets |-> self.relative_attention_num_buckets,
         is_cross_attention |-> is_cross_attention,
         scale_mask_softmax_fusion |-> FALSE,
         apply_query_key_layer_scaling |-> FALSE,
         layer_idx |-> self.layer_idx,
         has_relative_attention_bias |-> has_relative_attention_bias,
         is_decoder |-> is_decoder])

\* build_attention as written: a keyword MultiheadAttention.__init__ does
\* not declare ends the call in a TypeError
BuildAttention(self, is_cross_attention, has_relative_attention_bias, is_decoder) ==
    IF BuildAttentionKeywords \subseteq MultiheadAttentionParams
    THEN AttentionOfLayer(self, is_cross_attention, has_relative_attention_bias,
                          is_decoder)
    ELSE [status |-> "TypeError"]

\* TransformerLayer.__init__, lines 66-124: the attributes assigned before
\* the first build_attention (a fresh module is in training mode;
\* drop_path_active is "drop_path_prob > 0.0", i.e. self.drop_path is a
\* DropPath and not nn.Identity), then self_attention, for a decoder
\* cross_attention, then the mlp of the kind asked for.  An exception of a
\* step ends the call and leaves no layer.
TransformerLayerInit(p) ==
    LET self == [hidden_size |-> p.hidden_size,
                 num_attention_heads |-> p.num_attention_heads,
                 relative_attention_num_buckets |-> p.relative_attention_num_buckets,
                 layer_idx |-> p.layer_idx,
                 is_decoder |-> p.is_decoder,
                 drop_path_active |-> p.drop_path_active,
                 training |-> TRUE]
        self_attention  == BuildAttention(self, FALSE, p.has_relative_attention_bias,
                                          p.is_decoder)
        cross_attention == BuildAttention(self, TRUE, FALSE, p.is_decoder)
    IN  IF self_attention.status # "ok" THEN [status |-> self_attention.status]
        ELSE IF p.is_decoder /\ cross_attention.status # "ok"
        THEN [status |-> cross_attention.status]
        ELSE [status |-> "ok",
              hidden_size |-> self.hidden_size,
              num_attention_heads |-> self.num_attention_heads,
              layer_idx |-> self.layer_idx,
              is_decoder |-> self.is_decoder,
              drop_path_active |-> self.drop_path_active,
              training |-> self.training,
              self_attention |-> self_attention,
              cross_attention |-> IF p.is_decoder THEN <<cross_attention>> ELSE None,
              mlp |-> p.mlp_type]

\* whether self.drop_path changes (or rejects) what it is given
DropPathActs(self) == self.drop_path_active /\ self.training

\* self.drop_path(x) for a tensor x
DropPath(self, what) ==
    IF DropPathActs(self) THEN "drop_path(" \o what \o ")" ELSE what

\* the locals of forward
Frame(hidden_states, attention_mask, self_past, cross_past, position_bias, encdec_bias) ==
    [hidden_states |-> hidden_states,
     attention_mask |-> attention_mask,
     self_attn_past_key_value |-> self_past,
     cross_attn_past_key_value |-> cross_past,
     position_bias |-> position_bias,
     encoder_decoder_position_bias |-> encdec_bias,
     layernorm_output |-> None,
     presents |-> None,
     events |-> << >>,
     drop_path_on |-> << >>,
     self_call |-> None, self_ret |-> None,
     cross_call |-> None, cross_ret |-> None,
     error |-> None]

\* the handoff left out: the tensor stays where the caller had it
PlaceOnLayer_Skipped(self, t) == t

\* lines 156-162: t.to_global(placement=dist.get_layer_placement(self.layer_idx))
PlaceOnLayer(self, t) == ToGlobalPlacement(t, GetLayerPlacement(self.layer_idx))

\* lines 164-173: self_attn_past_key_value
SelfPast(self, past) ==
    IF past = None THEN None
    ELSE IF self.is_decoder THEN SubSeq(past, 1, 2)
    ELSE past

\* the first pair handed to cross-attention as well
CrossPast_FirstPair(self, past) ==
    IF past = None \/ ~self.is_decoder THEN None
    ELSE SubSeq(past, 1, 2)

\* lines 164-173: cross_attn_past_key_value
CrossPast(self, past) ==
    IF past = None \/ ~self.is_decoder THEN None
    ELSE SubSeq(past, 3, Len(past))

\* the sub-stage after self-attention is always the feed-forward one
AfterSelfAttention_SkipsCross(self) == "mlp"

\* lines 196, 220: the sub-stage that follows self-attention
AfterSelfAttention(self) ==
    IF self.is_decoder THEN "cross_attention" ELSE "mlp"

\* the bias handed in is kept and the one the attention returned is dropped
BiasAfterAttention_KeepsArgument(supplied, r) == supplied

\* lines 177, 202: position_bias is rebound to what the attention returned
BiasAfterAttention(supplied, r) == r.position_bias

\* lines 156-173: placement handoff and the split of past_key_value
LayerEnter(a) ==
    LET hidden_states  == PlaceOnLayer(layer[1], a.hidden_states)
        attention_mask == IF a.attention_mask # None
                          THEN <<PlaceOnLayer(layer[1], a.attention_mask[1])>>
                          ELSE None
        past           == a.past_key_value
        bad            == past # None /\ layer[1].is_decoder /\ Len(past) # 4
        self_past      == SelfPast(layer[1], past)
        cross_past     == CrossPast(layer[1], past)
        f == Frame(hidden_states, attention_mask, self_past, cross_past,
                   a.position_bias, a.encoder_decoder_position_bias)
    IN  /\ args' = <<a>>
        /\ ret' = None
        /\ IF bad
           THEN /\ pc' = "error"
                /\ fr' = <<[f EXCEPT !.error = <<"AssertionError">>,
                                     !.self_attn_past_key_value = None,
                                     !.cross_attn_past_key_value = None]>>
           ELSE /\ pc' = "self_attention"
                /\ fr' = <<f>>
        /\ UNCHANGED <<layer_init, layer>>
        /\ UNCHANGED <<bucket_vars, attn_vars, matcher_vars>>

\* lines 175-194: the self-attention sub-stage
SelfAttentionStage ==
    /\ pc = "self_attention"
    /\ LET f == fr[1]
           layernorm_output == LayerNormForward("input_layernorm", f.hidden_states)
           call == [hidden_states |-> layernorm_output,
                    encoder_states |-> None,
                    attention_mask |-> f.attention_mask,
                    past_key_value |-> f.self_attn_past_key_value,
                    use_cache |-> args[1].use_cache,
                    position_bias |-> f.position_bias,
                    query_length |-> None]
           r  == MHAForward(layer[1].self_attention, call)
           f1 == [f EXCEPT !.layernorm_output = <<layernorm_output>>,
                           !.events = Append(@, "self_attention"),
                           !.self_call = <<call>>,
                           !.self_ret = <<r>>]
       IN  IF r.status # "ok"
           THEN /\ pc' = "error"
                /\ fr' = <<[f1 EXCEPT !.error = <<r.status>>]>>
           ELSE
           \* line 185: drop_path is handed the first element of the result,
           \* which is the pair (output, cache) when use_cache
           LET f2 == [f1 EXCEPT !.position_bias =
                                    BiasAfterAttention(f.position_bias, r),
                                !.drop_path_on =
                                    Append(@, IF r.packed THEN "pair" ELSE "tensor")]
           IN  IF r.packed /\ DropPathActs(layer[1])
               THEN /\ pc' = "error"
                    /\ fr' = <<[f2 EXCEPT !.error = <<"AttributeError">>]>>
               ELSE
               LET hidden_states ==
                       Residual(f.hidden_states, DropPath(layer[1], "self_attention"))
               IN  /\ pc' = AfterSelfAttention(layer[1])
                   /\ fr' = <<[f2 EXCEPT
                                 !.presents = IF args[1].use_cache
                                              THEN r.past_key_value ELSE None,
                                 !.hidden_states = hidden_states,
                                 !.layernorm_output =
                                     <<LayerNormForward("post_attention_layernorm",
                                                        hidden_states)>>]>>
    /\ UNCHANGED <<layer_init, layer, args, ret>>
    /\ UNCHANGED <<bucket_vars, attn_vars, matcher_vars>>

\* lines 196-218: the cross-attention sub-stage of a decoder layer
CrossAttentionStage ==
    /\ pc = "cross_attention"
    /\ LET f == fr[1]
           query_length == IF f.presents # None
                           THEN <<Len(f.presents[1])>> ELSE None
           call == [hidden_states |-> f.layernorm_output[1],
                    encoder_states |-> args[1].encoder_states,
                    attention_mask |-> args[1].encoder_attention_mask,
                    past_key_value |-> f.cross_attn_past_key_value,
                    use_cache |-> args[1].use_cache,
                    position_bias |-> f.encoder_decoder_position_bias,
                    query_length |-> query_length]
           r  == MHAForward(layer[1].cross_attention[1], call)
           f1 == [f EXCEPT !.events = Append(@, "cross_attention"),
                           !.cross_call = <<call>>,
                           !.cross_ret = <<r>>]
       IN  IF r.status # "ok"
           THEN /\ pc' = "error"
                /\ fr' = <<[f1 EXCEPT !.error = <<r.status>>]>>
           ELSE
           LET hidden_states ==
                   Residual(f.hidden_states, DropPath(layer[1], "cross_attention"))
           IN  /\ pc' = "mlp"
               /\ fr' = <<[f1 EXCEPT
                             !.encoder_decoder_position_bias =
                                 BiasAfterAttention(f.encoder_decoder_position_bias, r),
                             !.presents = IF args[1].use_cache
                                          THEN f.presents \o r.past_key_value
                                          ELSE f.presents,
                             !.drop_path_on = Append(@, "tensor"),
                             !.hidden_states = hidden_states,
                             !.layernorm_output =
                                 <<LayerNormForward("post_cross_attention_layernorm",
                                                    hidden_states)>>]>>
    /\ UNCHANGED <<layer_init, layer, args, ret>>
    /\ UNCHANGED <<bucket_vars, attn_vars, matcher_vars>>

\* lines 220-230: the feed-forward sub-stage and the result of forward:
\*   (output, position_bias[, encoder_decoder_position_bias])   not packed
\*   ((output, presents), position_bias[, ...])                  packed
MlpStage ==
    /\ pc = "mlp"
    /\ LET f == fr[1]
           output == Residual(f.hidden_states, DropPath(layer[1], "mlp"))
       IN  /\ pc' = "done"
           /\ fr' = <<[f EXCEPT !.events = Append(@, "mlp"),
                                !.drop_path_on = Append(@, "tensor")]>>
           /\ ret' = <<[output |-> output,
                        presents |-> IF args[1].use_cache THEN f.presents ELSE None,
                        packed |-> args[1].use_cache,
                        position_bias |-> f.position_bias,
                        encoder_decoder_position_bias |->
                            IF layer[1].is_decoder
                            THEN f.encoder_decoder_position_bias ELSE None,
                        arity |-> IF layer[1].is_decoder THEN 3 ELSE 2]>>
    /\ UNCHANGED <<layer_init, layer, args>>
    /\ UNCHANGED <<bucket_vars, attn_vars, matcher_vars>>

(***************************************************************************)
(* Inputs of a TransformerLayer.                                           *)
(***************************************************************************)
\* the arguments of TransformerLayer(...)
LayerParams ==
    {[hidden_size |-> hc[1], num_attention_heads |-> hc[2],
      relative_attention_num_buckets |-> ConfigNumBuckets,
      layer_idx |-> li, is_decoder |-> dec, drop_path_active |-> dp,
      has_relative_attention_bias |-> tb, mlp_type |-> mt] :
        hc \in HeadConfigs, li \in 0..3, dec \in BOOLEAN, dp \in BOOLEAN,
        tb \in BOOLEAN, mt \in {"t5", "mt5"}}

\* the masks a layer is called with
LayerMaskKinds == {"none", "ones", "pad"}

\* hidden_states of a first call: tokens 1 .. n on placement 0 or 1
LayerHiddenInputs ==
    {Tensor(p, "S0B", [i \in 1..n |-> i], << >>) : n \in 1..MaxTgt, p \in {0, 1}}

\* past_key_value of a first call: None, a pair, a 4-tuple
LayerPastInputs == {None, SamplePast(1), SamplePast(1) \o SamplePast(1)}

\* the arguments of a call; masks and biases are shaped for the tensors of
\* the call: [tgt, cached + tgt] for self-attention, [tgt, encoder or cached
\* cross length] for cross-attention
LayerArgs(hs, mk, enc, emk, past, uc, bk) ==
    LET tgt      == Len(hs.data)
        self_src == tgt + (IF past # None THEN Len(past[1]) ELSE 0)
        cross_src == IF past # None /\ Len(past) = 4 THEN Len(past[3])
                     ELSE IF enc # None THEN Len(enc[1].data) ELSE 1
    IN  [hidden_states |-> hs,
         attention_mask |-> MaskOf(mk, tgt, self_src),
         encoder_states |-> enc,
         encoder_attention_mask |-> MaskOf(emk, tgt, cross_src),
         past_key_value |-> past,
         use_cache |-> uc,
         position_bias |-> BiasOf(bk, tgt, self_src),
         encoder_decoder_position_bias |->
             IF layer[1].is_decoder THEN BiasOf(bk, tgt, cross_src) ELSE None]

\* what an encoder layer is not given
LayerEncoderInputs == IF layer[1].is_decoder THEN EncoderInputs ELSE {None}

LayerEncoderMaskKinds == IF layer[1].is_decoder THEN LayerMaskKinds ELSE {"none"}

\* the number of layers the hidden state has passed
StackDepth(t) == Cardinality({i \in 1..Len(t.hist) : t.hist[i] \in {"mlp", "drop_path(mlp)"}})

\* layers a hidden state is threaded through
MaxStack == 2

\* forward(self, ...) as a function of its arguments, self among them: the
\* attributes of self it reads (layer_idx, is_decoder, drop_path, the two
\* attention modules, the mlp), self_attention and cross_attention being
\* MultiheadAttention modules as MultiheadAttention.__init__ builds them with
\* the arguments build_attention names other than head_size.
\* TransformerLayer(...) returns no such object (TransformerLayerInit); it is
\* an argument of forward here, not the result of a construction.
ForwardSelf(p) ==
    LET self == [hidden_size |-> p.hidden_size,
                 num_attention_heads |-> p.num_attention_heads,
                 relative_attention_num_buckets |-> p.relative_attention_num_buckets,
                 layer_idx |-> p.layer_idx,
                 is_decoder |-> p.is_decoder]
    IN  [status |-> "ok",
         hidden_size |-> p.hidden_size,
         num_attention_heads |-> p.num_attention_heads,
         layer_idx |-> p.layer_idx,
         is_decoder |-> p.is_decoder,
         drop_path_active |-> p.drop_path_active,
         training |-> p.training,
         self_attention |->
             AttentionOfLayer(self, FALSE, p.has_relative_attention_bias, p.is_decoder),
         cross_attention |->
             IF p.is_decoder
             THEN <<AttentionOfLayer(self, TRUE, FALSE, p.is_decoder)>>
             ELSE None,
         mlp |-> "t5"]

\* the selves forward is followed on; training mode is told apart only where
\* drop_path is a DropPath, the one attribute that reads it
ForwardSelves ==
    {ForwardSelf(p) :
        p \in {q \in [hidden_size : {8}, num_attention_heads : {2},
                       relative_attention_num_buckets : {ConfigNumBuckets},
                       layer_idx : {1, 2},
                       is_decoder : BOOLEAN,
                       drop_path_active : BOOLEAN,
                       training : BOOLEAN,
                       has_relative_attention_bias : BOOLEAN] :
                  q.training => q.drop_path_active}}

\* forward is about to be called on a self
InitForward ==
    /\ NoBucket /\ NoAttn /\ NoMatcher
    /\ layer_init = None
    /\ layer \in {<<l>> : l \in ForwardSelves}
    /\ pc = "idle" /\ args = None /\ fr = None /\ ret = None

\* no layer has been asked for yet
InitLayer ==
    /\ NoBucket /\ NoAttn /\ NoMatcher
    /\ layer_init = None /\ layer = None
    /\ pc = "idle" /\ args = None /\ fr = None /\ ret = None

\* TransformerLayer(...) is called with arguments p
TransformerLayerNew ==
    /\ NoBucket /\ NoAttn /\ NoMatcher
    /\ layer_init = None /\ layer = None
    /\ \E p \in LayerParams :
          /\ layer_init' = <<p>>
          /\ layer' = <<TransformerLayerInit(p)>>
    /\ UNCHANGED <<pc, args, fr, ret>>
    /\ UNCHANGED <<bucket_vars, attn_vars, matcher_vars>>

\* forward is called on fresh inputs
LayerCall ==
    /\ layer # None /\ layer[1].status = "ok"
    /\ pc = "idle"
    /\ \E hs \in LayerHiddenInputs, mk \in LayerMaskKinds, enc \in LayerEncoderInputs,
          emk \in LayerEncoderMaskKinds, past \in LayerPastInputs,
          uc \in BOOLEAN, bk \in {"none", "match"} :
          LayerEnter(LayerArgs(hs, mk, enc, emk, past, uc, bk))

\* the next decoding step: the layer that was handed the input of the stack
\* is handed the presents it returned
LayerCallCached ==
    /\ layer # None /\ layer[1].status = "ok"
    /\ pc = "done"
    /\ ret[1].packed
    /\ StackDepth(ret[1].output) = 1
    /\ Len(ret[1].presents[1]) < MaxCacheLen
    /\ \E hs \in HiddenInputs, mk \in LayerMaskKinds, enc \in LayerEncoderInputs,
          emk \in LayerEncoderMaskKinds, bk \in {"none", "match"} :
          LayerEnter(LayerArgs(hs, mk, enc, emk, ret[1].presents, TRUE, bk))

\* the next layer of the stack: a layer of the same configuration is handed
\* the output and the biases this one returned, with the other arguments as
\* before
LayerCallNext ==
    /\ layer # None /\ layer[1].status = "ok"
    /\ pc = "done"
    /\ StackDepth(ret[1].output) < MaxStack
    /\ LayerEnter([args[1] EXCEPT
                     !.hidden_states = ret[1].output,
                     !.position_bias = ret[1].position_bias,
                     !.encoder_decoder_position_bias =
                         ret[1].encoder_decoder_position_bias])

\* the steps of forward
NextForward ==
    \/ LayerCall
    \/ LayerCallCached
    \/ LayerCallNext
    \/ SelfAttentionStage
    \/ CrossAttentionStage
    \/ MlpStage

NextLayer == TransformerLayerNew

SpecLayer == InitLayer /\ [][NextLayer]_vars

\* forward on each self, from its call to its return
SpecForward == InitForward /\ [][NextForward]_vars

(***************************************************************************)
(* The program: a MultiheadAttention used on its own, the construction of  *)
(* a TransformerLayer, or the forward of one.                              *)
(***************************************************************************)
Init == InitAttn \/ InitLayer \/ InitForward

Next == NextAttn \/ NextLayer \/ NextForward

Spec == Init /\ [][Next]_vars

(***************************************************************************)
(* Specification SpecBucket: one entry of the relative-position matrix.    *)
(***************************************************************************)
NumBucketsChoices == {ConfigNumBuckets, ConfigNumBuckets \div 2}

InitBucket ==
    /\ relative_position \in -MaxRelPos..MaxRelPos
    /\ other_position = 0
    /\ bidirectional \in BOOLEAN
    /\ num_buckets \in NumBucketsChoices
    /\ relative_buckets = None
    /\ other_buckets = None
    /\ NoAttn /\ NoLayer /\ NoMatcher

BucketCall ==
    /\ relative_buckets = None
    /\ relative_buckets' =
           <<_relative_position_bucket(relative_position, bidirectional, num_buckets)>>
    /\ other_buckets' =
           <<_relative_position_bucket(other_position, bidirectional, num_buckets)>>
    /\ UNCHANGED <<relative_position, other_position, bidirectional, num_buckets>>
    /\ UNCHANGED <<attn_vars, layer_vars, matcher_vars>>

NextBucket == BucketCall

SpecBucket == InitBucket /\ [][NextBucket]_vars

(***************************************************************************)
(* Specification SpecBucketPair: two entries of the matrix, both at or     *)
(* before the query position.                                              *)
(***************************************************************************)
InitBucketPair ==
    /\ relative_position \in -MaxPast..0
    /\ other_position \in -MaxPast..0
    /\ bidirectional \in BOOLEAN
    /\ num_buckets \in NumBucketsChoices
    /\ relative_buckets = None
    /\ other_buckets = None
    /\ NoAttn /\ NoLayer /\ NoMatcher

SpecBucketPair == InitBucketPair /\ [][NextBucket]_vars


(***************************************************************************)
(* Specification SpecBucketModes: one entry of the matrix bucketed with    *)
(* bidirectional=True (relative_buckets) and with bidirectional=False      *)
(* (other_buckets).                                                        *)
(***************************************************************************)
InitBucketModes ==
    /\ relative_position \in -MaxRelPos..MaxRelPos
    /\ other_position = relative_position
    /\ bidirectional = TRUE
    /\ num_buckets \in NumBucketsChoices
    /\ relative_buckets = None
    /\ other_buckets = None
    /\ NoAttn /\ NoLayer /\ NoMatcher

BucketCallModes ==
    /\ relative_buckets = None
    /\ relative_buckets' =
           <<_relative_position_bucket(relative_position, TRUE, num_buckets)>>
    /\ other_buckets' =
           <<_relative_position_bucket(other_position, FALSE, num_buckets)>>
    /\ UNCHANGED <<relative_position, other_position, bidirectional, num_buckets>>
    /\ UNCHANGED <<attn_vars, layer_vars, matcher_vars>>

SpecBucketModes == InitBucketModes /\ [][BucketCallModes]_vars

(***************************************************************************)
(* HungarianMatcher.forward.  A box is the one coordinate in which the     *)
(* boxes of a call differ, and the matcher weighs the box distance only,   *)
(* so that the cost of a prediction and a target is their L1 distance.     *)
(* Batch elements and the columns of the cost matrix are numbered from 1;  *)
(* the indices returned are numbered from 0 as in the code.                *)
(***************************************************************************)
\* the sum of the entries of a sequence of integers
RECURSIVE Sum(_)
Sum(s) == IF s = << >> THEN 0 ELSE s[1] + Sum(Tail(s))

\* sizes = [len(v["boxes"]) for v in targets]
Sizes(targets) == [b \in 1..Len(targets) |-> Len(targets[b])]

\* tgt_bbox = flow.cat([v["boxes"] for v in targets])
RECURSIVE Cat(_)
Cat(targets) == IF targets = << >> THEN << >> ELSE targets[1] \o Cat(Tail(targets))

\* C.view(bs, num_queries, -1): C[b][q][col] is the cost of prediction q of
\* batch element b and column col of the concatenated targets
CostMatrix(pred_boxes, targets) ==
    LET tgt_bbox == Cat(targets)
    IN  [b \in 1..Len(pred_boxes) |->
            [q \in 1..Len(pred_boxes[b]) |->
                [col \in 1..Len(tgt_bbox) |-> Abs(pred_boxes[b][q] - tgt_bbox[col])]]]

\* C.split(sizes, -1): chunk i holds the next sizes[i] columns
Split(sizes) ==
    [i \in 1..Len(sizes) |->
        LET before == Sum(SubSeq(sizes, 1, i - 1))
        IN  [x \in 1..sizes[i] |-> before + x]]

\* c[i] for chunk c: the rows of batch element i under the columns of c
Block(C, i, c) == [q \in 1..Len(C[i]) |-> [x \in 1..Len(c) |-> C[i][q][c[x]]]]

\* np.argsort of a short list: the positions in ascending order of their
\* value, equal values in their order of appearance
Argsort(s) ==
    CHOOSE p \in [1..Len(s) -> 1..Len(s)] :
        /\ \A x, y \in 1..Len(s) : x # y => p[x] # p[y]
        /\ \A x, y \in 1..Len(s) :
              x < y => \/ s[p[x]] < s[p[y]]
                       \/ (s[p[x]] = s[p[y]] /\ p[x] < p[y])

\* the one-to-one assignments of min(nr, nc) rows to columns, the rows in
\* ascending order
Assignments(nr, nc) ==
    LET k == Min(nr, nc)
    IN  {a \in [index_i : [1..k -> 0..(nr - 1)], index_j : [1..k -> 0..(nc - 1)]] :
            \A x, y \in 1..k :
                x < y => (a.index_i[x] < a.index_i[y] /\ a.index_j[x] # a.index_j[y])}

\* the cost of an assignment under a cost block
AssignmentCost(block, a) ==
    Sum([x \in 1..Len(a.index_i) |-> block[a.index_i[x] + 1][a.index_j[x] + 1]])

\* scipy's linear_sum_assignment: the assignments of least cost (the one
\* returned among several of equal cost is not specified)
linear_sum_assignment(block) ==
    LET nr  == Len(block)
        nc  == IF nr = 0 THEN 0 ELSE Len(block[1])
        all == Assignments(nr, nc)
    IN  {a \in all : \A o \in all : AssignmentCost(block, a) <= AssignmentCost(block, o)}

\* the lists [linear_sum_assignment(c[i]) for i, c in enumerate(chunks)]
IndicesOver(C, chunks) ==
    LET each == [i \in 1..Len(chunks) |-> linear_sum_assignment(Block(C, i, chunks[i]))]
    IN  {ind \in [1..Len(chunks) -> UNION {each[i] : i \in 1..Len(chunks)}] :
            \A i \in 1..Len(chunks) : ind[i] \in each[i]}

\* np.array(indices) is rectangular
Rectangular(indices) ==
    \A x, y \in 1..Len(indices) : Len(indices[x].index_i) = Len(indices[y].index_i)

\* what forward returns
MatchResult(status, indices) == [status |-> status, indices |-> indices]

\* lines 96-106: the outcomes of forward.  When the last target has no box
\* the columns are split by the sorted sizes, chunk i is still paired with
\* the predictions of batch element i, and the list is put back in the
\* order of the targets through np.array, which for lists of unequal length
\* raises ValueError or builds an array of objects, depending on numpy.
MatcherForward(a) ==
    LET C     == CostMatrix(a.pred_boxes, a.targets)
        sizes == Sizes(a.targets)
    IN  IF sizes[Len(sizes)] = 0
        THEN LET argsort_idx == Argsort(sizes)
                 sorted      == [i \in 1..Len(sizes) |-> sizes[argsort_idx[i]]]
                 inverse_idx == Argsort(argsort_idx)
             IN  UNION {
                    {MatchResult("ok", [b \in 1..Len(sizes) |-> ind[inverse_idx[b]]])}
                       \cup (IF Rectangular(ind) THEN {}
                              ELSE {MatchResult("ValueError", << >>)})
                    : ind \in IndicesOver(C, Split(sorted))}
        ELSE {MatchResult("ok", ind) : ind \in IndicesOver(C, Split(sizes))}

(***************************************************************************)
(* Specification SpecMatcher: one call of HungarianMatcher.forward.        *)
(***************************************************************************)
\* the coordinate of a predicted box
BoxCoords == {0, 1}

\* pred_boxes of bs batch elements with num_queries predictions each
PredInputs(bs, num_queries) == [1..bs -> [1..num_queries -> BoxCoords]]

\* targets: per batch element up to MaxBoxes boxes, box k at coordinate
\* k - 1, and at least one box in the batch (line 93 leaves the last
\* dimension of an empty cost matrix open)
TargetInputs(bs) ==
    {t \in [1..bs -> {[k \in 1..n |-> k - 1] : n \in 0..MaxBoxes}] :
        \E b \in 1..bs : Len(t[b]) > 0}

InitMatcher ==
    /\ \E bs \in 1..MaxBatch, num_queries \in 1..MaxQueries :
          \E pred_boxes \in PredInputs(bs, num_queries), targets \in TargetInputs(bs) :
              match_call = <<[pred_boxes |-> pred_boxes, targets |-> targets]>>
    /\ match_ret = None
    /\ NoBucket /\ NoAttn /\ NoLayer

HungarianForward ==
    /\ match_call # None
    /\ match_ret = None
    /\ \E r \in MatcherForward(match_call[1]) : match_ret' = <<r>>
    /\ UNCHANGED match_call
    /\ UNCHANGED <<bucket_vars, attn_vars, layer_vars>>

SpecMatcher == InitMatcher /\ [][HungarianForward]_vars


(***************************************************************************)
(* Claims about _relative_position_bucket.                                 *)
(***************************************************************************)
\* C4: for every relative_position in [-10000, 10000], in bidirectional and
\* in unidirectional mode, with num_buckets = 32 and max_distance = 128, the
\* bucket returned is an integer b with 0 <= b <= num_buckets - 1.
C4_BucketBounded ==
    (relative_buckets # None /\ num_buckets = ConfigNumBuckets)
        => (relative_buckets[1] \in 0..(num_buckets - 1))

\* a position far beyond max_distance has been bucketed, into the last bucket
C4_Witness ==
    /\ relative_position = -MaxRelPos
    /\ ~bidirectional
    /\ num_buckets = ConfigNumBuckets
    /\ relative_buckets = <<ConfigNumBuckets - 1>>

\* C10: in unidirectional mode, for fixed num_buckets and max_distance, the
\* bucket is monotone in the distance into the past: 0 <= -p1 <= -p2 implies
\* bucket(p1) <= bucket(p2)  (p1 is other_position, p2 is relative_position).
C10_BucketMonotone ==
    (/\ ~bidirectional
     /\ relative_buckets # None
     /\ 0 <= -other_position
     /\ -other_position <= -relative_position)
        => other_buckets[1] <= relative_buckets[1]

\* two past positions in the logarithmic regime have been bucketed, the
\* farther one into a strictly larger bucket
C10_Witness ==
    /\ ~bidirectional
    /\ num_buckets = ConfigNumBuckets
    /\ other_position = -20
    /\ relative_position = -100
    /\ relative_buckets # None
    /\ other_buckets[1] < relative_buckets[1]


\* C11: for the same relative_position, num_buckets and max_distance, the
\* bucket computed with bidirectional=True differs from the one computed
\* with bidirectional=False at every entry > 0: there the unidirectional
\* bucket is 0 and the bidirectional bucket is at least num_buckets/2.
C11_ModesDifferAhead ==
    (relative_buckets # None /\ relative_position > 0)
        => /\ other_buckets[1] = 0
           /\ relative_buckets[1] >= num_buckets \div 2
           /\ relative_buckets[1] # other_buckets[1]

\* a position ahead of the query, in the logarithmic regime, has been
\* bucketed in both modes
C11_Witness ==
    /\ relative_position = 100
    /\ other_position = 100
    /\ num_buckets = ConfigNumBuckets
    /\ relative_buckets # None
    /\ other_buckets = <<0>>
    /\ relative_buckets[1] > ConfigNumBuckets \div 2

\* C19: every position whose magnitude m (|p| in bidirectional mode,
\* max(-p, 0) in unidirectional mode) is below the exact threshold (half of
\* the effective bucket count, which is num_buckets halved first in
\* bidirectional mode) maps to bucket m, plus the effective bucket count
\* when bidirectional and p > 0; relative_position 0 maps to bucket 0 in
\* both modes, and no position of another magnitude in the exact regime
\* shares the bucket.
C19_ExactRegime ==
    relative_buckets # None =>
        LET p     == relative_position
            m     == IF bidirectional THEN (IF p < 0 THEN -p ELSE p)
                                      ELSE (IF p < 0 THEN -p ELSE 0)
            eff   == IF bidirectional THEN num_buckets \div 2 ELSE num_buckets
            exact == eff \div 2
        IN  /\ m < exact =>
                  /\ relative_buckets[1] =
                         m + (IF bidirectional /\ p > 0 THEN eff ELSE 0)
                  /\ \A q \in (1 - exact)..(exact - 1) :
                        (IF bidirectional \/ q < 0 THEN Abs(q) ELSE 0) # m
                            => _relative_position_bucket(q, bidirectional, num_buckets)
                                  # relative_buckets[1]
            /\ p = 0 => relative_buckets[1] = 0

\* a position three ahead has been bucketed in bidirectional mode, into the
\* exact regime of the upper half
C19_Witness ==
    /\ relative_position = 3
    /\ bidirectional
    /\ num_buckets = ConfigNumBuckets
    /\ relative_buckets = <<3 + ConfigNumBuckets \div 2>>


(***************************************************************************)
(* Claims about MultiheadAttention.forward.                                *)
(***************************************************************************)
AllOnes(mask) ==
    mask # None
      /\ \A i \in 1..Rows(mask[1].data) :
            \A j \in 1..Cols(mask[1].data) : mask[1].data[i][j] = 1

\* two softmax inputs give the same attention weights for every value of
\* the raw scores: the same multiple of each raw score, and additive parts
\* that differ by one constant along each row
SameSoftmax(L1, L2) ==
    /\ Len(L1) = Len(L2)
    /\ \A i \in 1..Len(L1) :
          /\ Len(L1[i]) = Len(L2[i])
          /\ \A j \in 1..Len(L1[i]) :
                /\ L1[i][j].mul = L2[i][j].mul
                /\ L1[i][j].add - L2[i][j].add = L1[i][1].add - L2[i][1].add

SameOutput(o1, o2) ==
    /\ o1 # None /\ o2 # None
    /\ o1[1].data.query = o2[1].data.query
    /\ o1[1].data.value = o2[1].data.value
    /\ SameSoftmax(o1[1].data.logits, o2[1].data.logits)

\* C3: cross-attention forward with past_key_value = None and
\* encoder_states = None raises ValueError and returns neither output nor
\* cache; with one of the two supplied, and in self-attention, it never
\* raises that error.
C3_ValueErrorIffNoSource ==
    attn_ret # None =>
        /\ (attn_ret[1].status = "ValueError")
              <=> (/\ attn[1].is_cross_attention
                   /\ attn_call[1].past_key_value = None
                   /\ attn_call[1].encoder_states = None)
        /\ (attn_ret[1].status = "ValueError")
              => (attn_ret[1].output = None /\ attn_ret[1].past_key_value = None)

\* a cross-attention call without cache and encoder output ended in the error
C3_Witness ==
    /\ attn_ret # None
    /\ attn[1].is_cross_attention
    /\ attn_call[1].past_key_value = None
    /\ attn_call[1].encoder_states = None
    /\ attn_ret[1].status = "ValueError"

\* C12: constructing a MultiheadAttention with hidden_size not divisible by
\* num_attention_heads raises an assertion error and leaves no module; with
\* hidden_size divisible the module built has
\* head_size * num_heads = hidden_size.
C12_DivisibleOrNoModule ==
    attn_init # None =>
        LET p == attn_init[1]
            m == attn[1]
        IN  /\ p.hidden_size % p.num_attention_heads # 0 =>
                  /\ m.status = "AssertionError"
                  /\ DOMAIN m = {"status"}
                  /\ attn_call = None
            /\ p.hidden_size % p.num_attention_heads = 0 =>
                  /\ m.status = "ok"
                  /\ m.hidden_size = p.hidden_size
                  /\ m.num_heads = p.num_attention_heads
                  /\ m.head_size * m.num_heads = m.hidden_size

\* the construction with hidden_size 6 and 4 heads has ended in the error
C12_Witness ==
    /\ attn_init # None
    /\ attn_init[1].hidden_size = 6
    /\ attn_init[1].num_attention_heads = 4
    /\ attn[1].status = "AssertionError"

\* C13: the raw attention scores are the query-key dot products multiplied
\* by 1/sqrt(head_size), and divided by layer_idx + 1 when
\* apply_query_key_layer_scaling is enabled: the factor f by which a dot
\* product enters an unmasked call satisfies f * f * head_size * coeff^2 = 1.
C13_ScoresScaled ==
    (/\ attn_ret # None
     /\ attn_ret[1].status = "ok"
     /\ attn_call[1].attention_mask = None)
        => \A i \in 1..Len(attn_ret[1].output[1].data.logits) :
              \A j \in 1..Len(attn_ret[1].output[1].data.logits[i]) :
                  LET f == attn_ret[1].output[1].data.logits[i][j].mul
                  IN  f > 0 /\ f * f * NormFactorInvSq(attn[1]) = 1

\* the entry of a [tgt, src] matrix that position [i, j] reads
At(M, i, j) == M[BIdx(i, Rows(M))][BIdx(j, Cols(M))]

\* C14: on the non-fused softmax path with a 0/1 attention_mask every masked
\* position enters softmax with the logit -10000, whatever its score and
\* bias, and every unmasked position keeps its score-plus-bias logit; a fully
\* masked row has all-equal finite logits.
C14_MaskedLogitFinite ==
    (/\ attn_ret # None
     /\ attn_ret[1].status = "ok"
     /\ ~attn[1].scale_mask_softmax_fusion
     /\ attn_call[1].attention_mask # None)
        => LET logits == attn_ret[1].output[1].data.logits
               mask   == attn_call[1].attention_mask[1].data
               bias   == attn_ret[1].bias_added[1]
           IN  \A i \in 1..Len(logits) :
                  /\ \A j \in 1..Len(logits[i]) :
                        /\ At(mask, i, j) = 0 =>
                              logits[i][j] = [mul |-> 0, add |-> -10000]
                        /\ At(mask, i, j) = 1 =>
                              logits[i][j] = [mul |-> 1, add |-> At(bias, i, j)]
                  /\ (\A j \in 1..Len(logits[i]) : At(mask, i, j) = 0)
                        => \A j, k \in 1..Len(logits[i]) : logits[i][j] = logits[i][k]

\* C16 as stated: with a supplied position_bias and past_key_value given the
\* bias added to the scores is the supplied bias restricted to its trailing
\* tgt_len rows; without a cache the supplied bias is added as it is.
C16_SuppliedBiasSliced ==
    (/\ attn_ret # None
     /\ attn_call[1].position_bias # None
     /\ attn_ret[1].key # None
     /\ Cols(attn_call[1].position_bias[1]) = Len(attn_ret[1].key)
     /\ attn_call[1].attention_mask = None)
        => LET supplied == attn_call[1].position_bias[1]
               tgt_len  == Len(attn_call[1].hidden_states.data)
           IN  IF attn_call[1].past_key_value # None
               THEN /\ attn_ret[1].status = "ok"
                    /\ attn_ret[1].bias_added[1] = LastRows(supplied, tgt_len)
               ELSE attn_ret[1].status = "ok" =>
                        attn_ret[1].bias_added[1] = supplied

\* C16 (amended): a supplied position_bias is added to the scores as it is,
\* with or without a cache; it is never cut to its trailing rows, so that a
\* supplied bias whose row count is neither tgt_len nor 1 makes forward
\* raise.
C16_SuppliedBiasAsIs ==
    (attn_ret # None /\ attn_call[1].position_bias # None)
        => LET supplied == attn_call[1].position_bias[1]
               tgt_len  == Len(attn_call[1].hidden_states.data)
           IN  /\ attn_ret[1].status = "ok" =>
                     attn_ret[1].bias_added[1] = supplied
               /\ Rows(supplied) \notin {tgt_len, 1} =>
                     attn_ret[1].status \in {"RuntimeError", "ValueError", "AssertionError"}

\* a decoding step over a cache of two positions has added a supplied bias
C16_Witness ==
    /\ attn_ret # None
    /\ attn_ret[1].status = "ok"
    /\ attn_call[1].position_bias # None
    /\ attn_call[1].past_key_value # None
    /\ Len(attn_call[1].hidden_states.data) = 1
    /\ Len(attn_ret[1].key) = 3
    /\ attn_ret[1].bias_added = attn_call[1].position_bias

\* C17: whenever forward resolves the position bias itself (position_bias
\* not supplied; an attention_mask of the shape of the scores is given;
\* encoder_states handed to cross-attention only, and as long as its
\* cached keys), the
\* bias it adds to the scores has tgt_len rows and as many columns as the
\* key tensor used in the score product has positions: for self- and
\* cross-attention, with or without a bias table, with or without a cache,
\* and in cross-attention whether the keys come from encoder_states or only
\* from past_key_value.
C17_ResolvedBiasShape ==
    (/\ attn_ret # None
     /\ attn_call[1].position_bias = None
     /\ attn_ret[1].key # None
     /\ attn_call[1].encoder_states # None =>
           /\ attn[1].is_cross_attention
           /\ Len(attn_call[1].encoder_states[1].data) = Len(attn_ret[1].key)
     /\ attn_call[1].attention_mask # None
     /\ Rows(attn_call[1].attention_mask[1].data) = Len(attn_call[1].hidden_states.data)
     /\ Cols(attn_call[1].attention_mask[1].data) = Len(attn_ret[1].key))
        => /\ attn_ret[1].status = "ok"
           /\ Rows(attn_ret[1].bias_added[1]) = Len(attn_call[1].hidden_states.data)
           /\ Cols(attn_ret[1].bias_added[1]) = Len(attn_ret[1].key)

\* C18: for a self-attention module that owns a bias table, called without a
\* supplied bias, with a cache of length L and t new query positions, the
\* table bias applied to new query r (0 <= r < t) and key j (0 <= j < L+t)
\* is table[bucket(j - (L+r))], that is rows L .. L+t-1 of
\* compute_bias(L+t, L+t): the bias of the full running length, sliced, not
\* recomputed with query_length = t.  (The mask penalty of line 238 is added
\* on top of the table bias.)
C18_CachedBiasIsSlice ==
    (/\ attn_ret # None
     /\ attn_ret[1].status = "ok"
     /\ ~attn[1].is_cross_attention
     /\ attn[1].has_relative_attention_bias
     /\ attn_call[1].position_bias = None
     /\ attn_call[1].past_key_value # None
     /\ attn_call[1].encoder_states = None
     /\ attn_call[1].query_length = None)
        => LET L    == Len(attn_call[1].past_key_value[1])
               t    == Len(attn_call[1].hidden_states.data)
               mask == attn_call[1].attention_mask[1].data
               bias == attn_ret[1].bias_added[1]
               full == compute_bias(attn[1], L + t, L + t)
               penalty(r, j) == (1 - At(mask, r + 1, j + 1)) * (-1000)
           IN  /\ Rows(bias) = t
               /\ Cols(bias) = L + t
               /\ \A r \in 0..(t - 1) : \A j \in 0..(L + t - 1) :
                     /\ bias[r + 1][j + 1] - penalty(r, j) =
                            relative_attention_bias(
                                _relative_position_bucket(
                                    j - (L + r), ~attn[1].is_decoder,
                                    attn[1].relative_attention_num_buckets))
                     /\ bias[r + 1][j + 1] - penalty(r, j) = full[L + r + 1][j + 1]

\* a decoder's self-attention has taken one decoding step over a cache of two
\* positions, its bias from the table
C18_Witness ==
    /\ attn_ret # None
    /\ attn_ret[1].status = "ok"
    /\ ~attn[1].is_cross_attention
    /\ attn[1].is_decoder
    /\ attn[1].has_relative_attention_bias
    /\ attn_call[1].position_bias = None
    /\ attn_call[1].past_key_value # None
    /\ Len(attn_call[1].past_key_value[1]) = 2
    /\ Len(attn_call[1].hidden_states.data) = 1
    /\ attn_call[1].attention_mask[1].data = <<<<1, 1, 1>>>>
    /\ attn_ret[1].bias_added[1] =
          <<<<relative_attention_bias(2), relative_attention_bias(1),
              relative_attention_bias(0)>>>>

\* C5: forward with an all-ones attention_mask completes and gives the same
\* output as forward on the same input with attention_mask = None, which
\* also completes (stated for the inputs on which the masked call returns).
C5_AllOnesMaskSameAsNone ==
    (/\ attn_ret # None
     /\ attn_ret[1].status = "ok"
     /\ AllOnes(attn_call[1].attention_mask))
        => LET unmasked == MHAForward(attn[1],
                              [attn_call[1] EXCEPT !.attention_mask = None])
           IN  /\ unmasked.status = "ok"
               /\ SameOutput(attn_ret[1].output, unmasked.output)


\* C1: a self-attention forward with use_cache, a cached pair of length L
\* and hidden_states of one position returns a cache pair of length L + 1;
\* after a prefill of P positions and n such steps, each fed the cache of
\* the step before, the cache has length P + n  (decode = <<P, n>>).
GrowsByOne(self, call, r) ==
    (/\ r.status = "ok"
     /\ ~self.is_cross_attention
     /\ call.use_cache
     /\ call.past_key_value # None
     /\ Len(call.hidden_states.data) = 1)
        => /\ Len(r.past_key_value) = 2
           /\ Len(r.past_key_value[1]) = Len(call.past_key_value[1]) + 1
           /\ Len(r.past_key_value[2]) = Len(call.past_key_value[2]) + 1

C1_CacheGrowsByOne ==
    /\ attn_ret # None => GrowsByOne(attn[1], attn_call[1], attn_ret[1])
    /\ decode # None =>
          /\ Len(attn_ret[1].past_key_value[1]) = decode[1] + decode[2]
          /\ Len(attn_ret[1].past_key_value[2]) = decode[1] + decode[2]

\* a prefill of one position and two incremental steps have left a cache of
\* three positions
C1_Witness ==
    /\ decode = <<1, 2>>
    /\ attn_call[1].past_key_value # None
    /\ Len(attn_call[1].past_key_value[1]) = 2
    /\ Len(attn_ret[1].past_key_value[1]) = 3

\* C2: a cross-attention forward that is given a cached pair uses exactly the
\* cached key and value, whatever encoder_states and hidden_states it is
\* given, and returns that same pair as its cache; so elements 2..3 of the
\* presents a decoder TransformerLayer returns equal elements 2..3 of the
\* past_key_value it was given.
CrossUsesCache(self, call, r) ==
    (/\ self.is_cross_attention
     /\ call.past_key_value # None
     /\ Len(call.past_key_value) = 2)
        => /\ r.key = call.past_key_value[1]
           /\ r.value = call.past_key_value[2]
           /\ (r.status = "ok" /\ call.use_cache)
                 => r.past_key_value = call.past_key_value

C2_CrossCacheImmutable ==
    /\ attn_ret # None => CrossUsesCache(attn[1], attn_call[1], attn_ret[1])
    /\ (fr # None /\ fr[1].cross_ret # None) =>
          CrossUsesCache(layer[1].cross_attention[1],
                         fr[1].cross_call[1], fr[1].cross_ret[1])
    /\ (/\ pc = "done" /\ ret[1].packed /\ layer[1].is_decoder
        /\ args[1].past_key_value # None)
          => /\ Len(ret[1].presents) = 4
             /\ ret[1].presents[3] = args[1].past_key_value[3]
             /\ ret[1].presents[4] = args[1].past_key_value[4]

\* a decoder layer was handed back presents whose cross-attention pair was
\* built from one encoder output, together with another encoder output, and
\* returned that pair
C2_Witness ==
    /\ pc = "done" /\ ret[1].packed /\ layer[1].is_decoder
    /\ args[1].past_key_value # None
    /\ Len(args[1].past_key_value) = 4
    /\ args[1].past_key_value[3][1].weight = "key_value"
    /\ args[1].encoder_states # None
    /\ args[1].encoder_states[1].data[1] # args[1].past_key_value[3][1].tok
    /\ Len(args[1].encoder_states[1].data) # Len(args[1].past_key_value[3])
    /\ ret[1].presents[3] = args[1].past_key_value[3]


(***************************************************************************)
(* Claims about HungarianMatcher.forward.                                  *)
(***************************************************************************)
\* C15: forward returns a list of batch_size entries in which entry b is a
\* one-to-one matching of the predictions of batch element b and the target
\* boxes of batch element b, computed from the cost block of b's prediction
\* rows and b's target columns, with len(index_i) = len(index_j) =
\* min(num_queries, number of target boxes of b), whether or not the last
\* target of the batch has zero boxes.
C15_MatchesOwnBlock ==
    match_ret # None =>
        LET a     == match_call[1]
            r     == match_ret[1]
            C     == CostMatrix(a.pred_boxes, a.targets)
            own   == Split(Sizes(a.targets))
        IN  /\ r.status = "ok"
            /\ Len(r.indices) = Len(a.pred_boxes)
            /\ \A b \in 1..Len(a.pred_boxes) :
                  /\ Len(r.indices[b].index_i) =
                         Min(Len(a.pred_boxes[b]), Len(a.targets[b]))
                  /\ Len(r.indices[b].index_j) = Len(r.indices[b].index_i)
                  /\ r.indices[b] \in linear_sum_assignment(Block(C, b, own[b]))

(***************************************************************************)
(* Claims about TransformerLayer.                                          *)
(***************************************************************************)
\* C20: constructing a TransformerLayer (encoder or decoder) with
\* hidden_size divisible by num_attention_heads and mlp_type "t5" or "mt5"
\* succeeds: every keyword argument that build_attention passes is a
\* parameter accepted by MultiheadAttention.__init__, and the constructed
\* layer has a self_attention module, an mlp module, and a cross_attention
\* module if and only if is_decoder.
C20_ConstructionSucceeds ==
    (layer_init # None
     /\ layer_init[1].hidden_size % layer_init[1].num_attention_heads = 0)
        => /\ BuildAttentionKeywords \subseteq MultiheadAttentionParams
           /\ layer[1].status = "ok"
           /\ layer[1].self_attention.status = "ok"
           /\ (layer[1].cross_attention # None) <=> layer_init[1].is_decoder
           /\ layer[1].mlp = layer_init[1].mlp_type

\* the additive part of every softmax input of an unmasked call is the
\* entry of bias at that position
BiasInScores(r, bias) ==
    r.mask = None =>
        \A i \in 1..Len(r.output[1].data.logits) :
            \A j \in 1..Len(r.output[1].data.logits[i]) :
                r.output[1].data.logits[i][j].add
                    = bias[BIdx(i, Rows(bias))][BIdx(j, Cols(bias))]

\* C6: forward returns as position_bias (a decoder layer also as
\* encoder_decoder_position_bias) exactly the bias its self-attention
\* (cross-attention) added to the attention scores in that call; a bias the
\* caller supplied is returned unmodified, so it stays the same through the
\* layers it is threaded through.
C6_ReturnsBiasUsed ==
    pc = "done" =>
        /\ ret[1].position_bias # None
        /\ ret[1].position_bias = fr[1].self_ret[1].bias_added
        /\ BiasInScores(fr[1].self_ret[1], ret[1].position_bias[1])
        /\ args[1].position_bias # None
              => ret[1].position_bias = args[1].position_bias
        /\ layer[1].is_decoder =>
              /\ ret[1].encoder_decoder_position_bias # None
              /\ ret[1].encoder_decoder_position_bias = fr[1].cross_ret[1].bias_added
              /\ BiasInScores(fr[1].cross_ret[1],
                              ret[1].encoder_decoder_position_bias[1])
              /\ args[1].encoder_decoder_position_bias # None
                    => ret[1].encoder_decoder_position_bias
                           = args[1].encoder_decoder_position_bias

\* a second layer of a decoder stack was handed the biases the first one
\* resolved from its table, and returned them
C6_Witness ==
    /\ pc = "done"
    /\ layer[1].is_decoder
    /\ layer[1].self_attention.has_relative_attention_bias
    /\ StackDepth(ret[1].output) = 2
    /\ args[1].position_bias # None
    /\ args[1].position_bias[1][1][1] = relative_attention_bias(0)
    /\ ret[1].position_bias = args[1].position_bias
    /\ ret[1].encoder_decoder_position_bias = args[1].encoder_decoder_position_bias

\* C7: with use_cache a decoder layer returns the 4-tuple (self_key,
\* self_value, cross_key, cross_value) and an encoder layer the 2-tuple
\* (self_key, self_value); a 4-tuple passed as past_key_value has elements
\* 0..1 routed to self-attention and elements 2..3 to cross-attention, so on
\* the call that is handed the returned presents each attention module gets
\* the pair it produced.
C7_PresentsLayout ==
    /\ (pc = "done" /\ ret[1].packed) =>
          /\ Len(ret[1].presents) = (IF layer[1].is_decoder THEN 4 ELSE 2)
          /\ ret[1].presents[1] = fr[1].self_ret[1].key
          /\ ret[1].presents[2] = fr[1].self_ret[1].value
          /\ <<ret[1].presents[1], ret[1].presents[2]>>
                 = fr[1].self_ret[1].past_key_value
          /\ layer[1].is_decoder =>
                /\ ret[1].presents[3] = fr[1].cross_ret[1].key
                /\ ret[1].presents[4] = fr[1].cross_ret[1].value
                /\ <<ret[1].presents[3], ret[1].presents[4]>>
                       = fr[1].cross_ret[1].past_key_value
    /\ (/\ fr # None /\ layer[1].is_decoder
        /\ args[1].past_key_value # None /\ Len(args[1].past_key_value) = 4) =>
          /\ fr[1].self_call # None =>
                fr[1].self_call[1].past_key_value
                    = <<args[1].past_key_value[1], args[1].past_key_value[2]>>
          /\ fr[1].cross_call # None =>
                fr[1].cross_call[1].past_key_value
                    = <<args[1].past_key_value[3], args[1].past_key_value[4]>>

\* a decoder layer was handed back the presents it had returned and both of
\* its attention modules have run on their own pairs
C7_Witness ==
    /\ pc = "done" /\ ret[1].packed /\ layer[1].is_decoder
    /\ args[1].past_key_value # None
    /\ Len(args[1].past_key_value) = 4
    /\ args[1].past_key_value[1][1].weight = "query_key_value"
    /\ args[1].past_key_value[3][1].weight = "key_value"
    /\ fr[1].self_call[1].past_key_value[1] = args[1].past_key_value[1]
    /\ fr[1].cross_call[1].past_key_value[1] = args[1].past_key_value[3]
    /\ Len(ret[1].presents) = 4

\* the sub-stages of one forward, in the order of the claim
StageOrder(self) ==
    IF self.is_decoder THEN <<"self_attention", "cross_attention", "mlp">>
    ELSE <<"self_attention", "mlp">>

IsPrefix(s, t) == Len(s) <= Len(t) /\ s = SubSeq(t, 1, Len(s))

\* what the sub-stages entered so far have added to hidden_states
ResidualsOf(self, events) ==
    [i \in 1..Len(events) |-> DropPath(self, events[i])]

\* C8: the sub-stages of one forward run in the order self-attention,
\* cross-attention, feed-forward; the self-attention residual is in
\* hidden_states before cross-attention starts and the cross-attention
\* residual before the MLP starts; cross-attention is entered exactly when
\* is_decoder; a call that returns has entered self-attention and the MLP.
C8_StageOrder ==
    fr # None =>
        LET f    == fr[1]
            base == args[1].hidden_states.hist
        IN  /\ IsPrefix(f.events, StageOrder(layer[1]))
            /\ pc = "cross_attention" =>
                  /\ layer[1].is_decoder
                  /\ f.events = <<"self_attention">>
                  /\ f.hidden_states.hist = base \o ResidualsOf(layer[1], f.events)
            /\ f.cross_call # None =>
                  /\ layer[1].is_decoder
                  /\ f.cross_call[1].hidden_states.hist
                        = base \o <<DropPath(layer[1], "self_attention"),
                                    "post_attention_layernorm">>
            /\ pc = "mlp" =>
                  /\ f.events = SubSeq(StageOrder(layer[1]), 1,
                                       Len(StageOrder(layer[1])) - 1)
                  /\ f.hidden_states.hist = base \o ResidualsOf(layer[1], f.events)
                  /\ f.layernorm_output[1].hist
                        = f.hidden_states.hist
                            \o <<IF layer[1].is_decoder
                                 THEN "post_cross_attention_layernorm"
                                 ELSE "post_attention_layernorm">>
            /\ pc = "done" =>
                  /\ f.events = StageOrder(layer[1])
                  /\ ret[1].output.hist = base \o ResidualsOf(layer[1], f.events)
                  /\ (f.cross_call # None) <=> layer[1].is_decoder

\* a decoder layer has returned after its three sub-stages
C8_Witness ==
    /\ pc = "done"
    /\ layer[1].is_decoder
    /\ fr[1].events = <<"self_attention", "cross_attention", "mlp">>
    /\ ret[1].output.hist = <<"self_attention", "cross_attention", "mlp">>

\* C9: at the start of forward hidden_states and, when given, attention_mask
\* are converted to the placement of the layer's layer_idx, and carry it in
\* every sub-stage; the conversion is idempotent and leaves a tensor that is
\* already on that placement unchanged.
C9_PlacementHandoff ==
    fr # None =>
        LET f      == fr[1]
            target == GetLayerPlacement(layer[1].layer_idx)
        IN  /\ f.hidden_states.placement = target
            /\ f.hidden_states.sbp = args[1].hidden_states.sbp
            /\ f.hidden_states.data = args[1].hidden_states.data
            /\ (f.attention_mask # None) <=> (args[1].attention_mask # None)
            /\ f.attention_mask # None =>
                  /\ f.attention_mask[1].placement = target
                  /\ f.attention_mask[1].sbp = args[1].attention_mask[1].sbp
                  /\ f.attention_mask[1].data = args[1].attention_mask[1].data
                  /\ PlaceOnLayer(layer[1], f.attention_mask[1]) = f.attention_mask[1]
                  /\ args[1].attention_mask[1].placement = target
                        => f.attention_mask = args[1].attention_mask
            /\ PlaceOnLayer(layer[1], f.hidden_states) = f.hidden_states
            /\ (pc = "self_attention" /\ args[1].hidden_states.placement = target)
                  => f.hidden_states = args[1].hidden_states
            /\ f.self_call # None =>
                  /\ f.self_call[1].hidden_states.placement = target
                  /\ f.self_call[1].attention_mask = f.attention_mask
            /\ f.cross_call # None =>
                  f.cross_call[1].hidden_states.placement = target

\* a layer was handed hidden_states and a mask of another placement and has
\* reached its feed-forward sub-stage
C9_Witness ==
    /\ pc = "mlp"
    /\ args[1].hidden_states.placement # GetLayerPlacement(layer[1].layer_idx)
    /\ args[1].attention_mask # None
    /\ args[1].attention_mask[1].placement # GetLayerPlacement(layer[1].layer_idx)
    /\ fr[1].hidden_states.placement = GetLayerPlacement(layer[1].layer_idx)
    /\ fr[1].attention_mask[1].placement = GetLayerPlacement(layer[1].layer_idx)

\* C21: in forward with use_cache, for every drop_path_prob, drop_path is
\* applied only to the attention output tensor of a sub-stage and never to
\* the (output, cache) pair, in the self-attention sub-stage exactly as in
\* the cross-attention sub-stage: no sub-stage hands drop_path the pair,
\* forward does not stop between a self-attention that returned and the
\* residual addition, and the cache in presents is the one the attention
\* module produced.
C21_DropPathOnTensorOnly ==
    (fr # None /\ args[1].use_cache) =>
        /\ \A i \in 1..Len(fr[1].drop_path_on) : fr[1].drop_path_on[i] = "tensor"
        /\ ~(/\ pc = "error"
              /\ fr[1].self_ret # None
              /\ fr[1].self_ret[1].status = "ok"
              /\ fr[1].cross_ret = None)
        /\ pc = "done" =>
              SubSeq(ret[1].presents, 1, 2) = fr[1].self_ret[1].past_key_value

=============================================================================
